---------------------------- MODULE Spec2Model ----------------------------
(***************************************************************************)
(* Model of crypto/hash/custom_hasher/hasher.cpp: the CPUID capability     *)
(* probe (Hasher::implemented), the backend selection                      *)
(* (Hasher::best_sha256_implementation), the Hasher constructor and the    *)
(* baseline backend Hasher::sha256_sse, run by concurrent callers over one *)
(* shared address space.                                                   *)
(*                                                                         *)
(* An IMPL bitmask is the set of its flags: operator| is \cup, operator&   *)
(* is \cap and !!x is x # {}.  A CPUID register is the set of the feature  *)
(* bits set in it, restricted to the bits the code tests.                  *)
(***************************************************************************)
EXTENDS Integers, Sequences, FiniteSets, TLC

\* ------------------------------------------------------------------ bounds
MaxBlocks == 2

\* --------------------------------------------------------------- constants
CPUID_LEAF == 7
BYTES_PER_CHUNK == 32

\* enum class IMPL (hasher.hpp): flags of a bitmask
NONE == {}
SSE  == {"SSE"}
AVX  == {"AVX"}
AVX2 == {"AVX2"}
SHA  == {"SHA"}
IMPL == SUBSET {"SSE", "AVX", "AVX2", "SHA"}

\* the tested bits of EBX of leaf 7 / ECX of leaf 1 (<cpuid.h>)
bit_SHA  == "bit_SHA"
bit_AVX2 == "bit_AVX2"
bit_AVX  == "bit_AVX"
bit_SSE3 == "bit_SSE3"
EBXBits == {bit_SHA, bit_AVX2}
ECXBits == {bit_AVX, bit_SSE3}

\* highest basic CPUID leaf the processor answers: none, leaf 1 only, leaf 7
LeafLevels == {0, 1, CPUID_LEAF}

Threads == {1, 2}

VARIABLES
    hw,               \* the processor: [maxLeaf, ebx7, ecx1], fixed for the run
    constructed,      \* the Hasher's constructor has finished
    token,            \* the IMPL argument the constructor was given
    hash_64b_blocks,  \* Hasher::_hash_64b_blocks, the bound backend
    probes,           \* number of calls of Hasher::implemented so far
    detected,         \* the value the last call of Hasher::implemented returned
    pat,              \* per thread: how its input buffer was filled
    mem,              \* the address space, one value per 32-byte chunk
    th,               \* per thread: the frame of its hash call
    overlap           \* history: some call started while another was in flight

vars == <<hw, constructed, token, hash_64b_blocks, probes, detected, pat, mem, th, overlap>>

hasherVars == <<constructed, token, hash_64b_blocks, probes, detected>>

\* ------------------------------------------------------------------ CPUID
\* __get_cpuid_count / __get_cpuid of <cpuid.h>: when the leaf is above the
\* processor's maximum the call returns 0 and leaves the registers as they
\* were; otherwise it overwrites them.
get_cpuid(leaf, regs) ==
    IF hw.maxLeaf < leaf THEN regs
    ELSE IF leaf = CPUID_LEAF THEN [b |-> hw.ebx7, c |-> {}]
    ELSE [b |-> {}, c |-> hw.ecx1]

\* Hasher::implemented.  ub, uc: the indeterminate values of the locals b and
\* c, which are declared without an initialiser.
implemented(ub, uc) ==
    LET r7 == get_cpuid(CPUID_LEAF, [b |-> ub, c |-> uc])
        s1 == IF bit_SHA \in r7.b THEN NONE \cup SHA ELSE NONE
        s2 == IF bit_AVX2 \in r7.b THEN s1 \cup AVX2 ELSE s1
        r1 == get_cpuid(1, r7)
        s3 == IF bit_AVX \in r1.c THEN s2 \cup AVX ELSE s2
        s4 == IF bit_SSE3 \in r1.c THEN s3 \cup SSE ELSE s3
    IN  s4

\* -------------------------------------------------------------- selection
Backends == {"sha256_shani", "sha256_8_avx2", "sha256_4_avx", "sha256_sse"}

\* Hasher::best_sha256_implementation, as a function of what implemented()
\* returned to it
\* (variant: AVX is tried before AVX2)
best_swapped(impl) ==
    IF (impl \cap SHA) # {} THEN "sha256_shani"
    ELSE IF (impl \cap AVX) # {} THEN "sha256_4_avx"
    ELSE IF (impl \cap AVX2) # {} THEN "sha256_8_avx2"
    ELSE "sha256_sse"

\* (variant: the last test is dropped, sha256_4_avx is the default)
best_avx_default(impl) ==
    IF (impl \cap SHA) # {} THEN "sha256_shani"
    ELSE IF (impl \cap AVX2) # {} THEN "sha256_8_avx2"
    ELSE "sha256_4_avx"

best_sha256_implementation(impl) ==
    IF (impl \cap SHA) # {} THEN "sha256_shani"
    ELSE IF (impl \cap AVX2) # {} THEN "sha256_8_avx2"
    ELSE IF (impl \cap AVX) # {} THEN "sha256_4_avx"
    ELSE "sha256_sse"

\* ------------------------------------------------------------ constructor
\* Hasher::Hasher(IMPL impl): the switch on the exact value of impl; the
\* default label runs the probe and the selection.
\* (variant: a token of several flags selects by priority among its flags)
Hasher_priority(impl) ==
    /\ ~constructed
    /\ \E ub \in SUBSET EBXBits, uc \in SUBSET ECXBits :
          IF impl = NONE
          THEN /\ hash_64b_blocks' = best_sha256_implementation(implemented(ub, uc))
               /\ probes' = probes + 1
               /\ detected' = implemented(ub, uc)
          ELSE /\ hash_64b_blocks' = best_sha256_implementation(impl \cup SSE)
               /\ UNCHANGED <<probes, detected>>
    /\ token' = impl
    /\ constructed' = TRUE
    /\ UNCHANGED <<hw, pat, mem, th, overlap>>

\* (variant: a token is honoured only when the probe reports its flag)
Hasher_probe_always(impl) ==
    /\ ~constructed
    /\ \E ub \in SUBSET EBXBits, uc \in SUBSET ECXBits :
          LET caps == implemented(ub, uc) IN
          /\ probes' = probes + 1
          /\ detected' = caps
          /\ hash_64b_blocks' =
                IF impl = SHA /\ SHA \subseteq caps THEN "sha256_shani"
                ELSE IF impl = AVX2 /\ AVX2 \subseteq caps THEN "sha256_8_avx2"
                ELSE IF impl = AVX /\ AVX \subseteq caps THEN "sha256_4_avx"
                ELSE IF impl = SSE THEN "sha256_sse"
                ELSE best_sha256_implementation(caps)
    /\ token' = impl
    /\ constructed' = TRUE
    /\ UNCHANGED <<hw, pat, mem, th, overlap>>

Hasher(impl) ==
    /\ ~constructed
    /\ \E ub \in SUBSET EBXBits, uc \in SUBSET ECXBits :
          IF impl = SHA
          THEN hash_64b_blocks' = "sha256_shani" /\ UNCHANGED <<probes, detected>>
          ELSE IF impl = AVX2
          THEN hash_64b_blocks' = "sha256_8_avx2" /\ UNCHANGED <<probes, detected>>
          ELSE IF impl = AVX
          THEN hash_64b_blocks' = "sha256_4_avx" /\ UNCHANGED <<probes, detected>>
          ELSE IF impl = SSE
          THEN hash_64b_blocks' = "sha256_sse" /\ UNCHANGED <<probes, detected>>
          ELSE /\ hash_64b_blocks' = best_sha256_implementation(implemented(ub, uc))
               /\ probes' = probes + 1
               /\ detected' = implemented(ub, uc)
    /\ token' = impl
    /\ constructed' = TRUE
    /\ UNCHANGED <<hw, pat, mem, th, overlap>>

\* ----------------------------------------------------------------- memory
\* Every address the code forms is a multiple of BYTES_PER_CHUNK, so the
\* address space holds one value per chunk.  Thread t owns the region
\* [InBase(t), InBase(t) + RegionBytes): an input buffer of 2*MaxBlocks chunks
\* followed by an output buffer of MaxBlocks chunks.
RegionBytes == 3 * MaxBlocks * BYTES_PER_CHUNK
InBase(t) == (t - 1) * RegionBytes
OutBase(t) == InBase(t) + 2 * MaxBlocks * BYTES_PER_CHUNK
Chunks == 0 .. (Cardinality(Threads) * 3 * MaxBlocks - 1)
Region(t) == ((t - 1) * 3 * MaxBlocks) .. (t * 3 * MaxBlocks - 1)
Owner(k) == (k \div (3 * MaxBlocks)) + 1
Untouched == -1
Patterns == {"zero", "distinct"}

\* the address space before any call: inputs per pattern, outputs untouched
InitMem(p) ==
    [k \in Chunks |->
        IF k * BYTES_PER_CHUNK >= OutBase(Owner(k)) THEN Untouched
        ELSE IF p[Owner(k)] = "zero" THEN 0 ELSE k + 1]

Load(m, addr) ==
    IF addr \div BYTES_PER_CHUNK \in DOMAIN m THEN m[addr \div BYTES_PER_CHUNK] ELSE Untouched

Store(m, addr, v) ==
    IF addr \div BYTES_PER_CHUNK \in DOMAIN m
    THEN [m EXCEPT ![addr \div BYTES_PER_CHUNK] = v] ELSE m

\* the digest of two chunk values: an injective pairing, distinct from every
\* input value and from Untouched
Digest(l, r) == 1000 + 30 * (l + 1) + (r + 1)

\* sha256_1_avx(output, input): reads the 64 bytes at input
sha256_1_avx_read(m, input) == Digest(Load(m, input), Load(m, input + BYTES_PER_CHUNK))

\* Hasher::sha256_sse run to completion by one caller, on memory m
RECURSIVE sha256_sse(_, _, _, _)
sha256_sse(m, output, input, blocks) ==
    IF blocks = 0 THEN m
    ELSE sha256_sse(Store(m, output, sha256_1_avx_read(m, input)),
                    output + BYTES_PER_CHUNK,
                    input + 2 * BYTES_PER_CHUNK,
                    blocks - 1)

\* the contract of the external kernels sha256_shani, sha256_8_avx2 and
\* sha256_4_avx (hasher.h): block i of the output is the digest of block i of
\* the input
RECURSIVE extern_kernel(_, _, _, _)
extern_kernel(m, output, input, blocks) ==
    IF blocks = 0 THEN m
    ELSE Store(extern_kernel(m, output, input, blocks - 1),
               output + (blocks - 1) * BYTES_PER_CHUNK,
               sha256_1_avx_read(m, input + (blocks - 1) * 2 * BYTES_PER_CHUNK))

\* ------------------------------------------------------------------ calls
IdleFrame == [pc |-> "idle", kern |-> "none", n |-> 0, blocks |-> 0,
              input |-> 0, output |-> 0, digest |-> Untouched, log |-> <<>>]

InFlight(t) == th[t].pc \in {"loop", "store", "extern"}

\* a caller invokes the bound backend through the Hasher on its own buffers
hash_pairs(t, n) ==
    /\ constructed
    /\ th[t].pc = "idle"
    /\ th' = [th EXCEPT ![t] = [IdleFrame EXCEPT
                 !.pc = IF hash_64b_blocks = "sha256_sse" THEN "loop" ELSE "extern",
                 !.kern = hash_64b_blocks,
                 !.n = n, !.blocks = n,
                 !.input = InBase(t), !.output = OutBase(t)]]
    /\ overlap' = (overlap \/ \E u \in Threads \ {t} : InFlight(u))
    /\ UNCHANGED <<hw, hasherVars, pat, mem>>

\* one of the external kernels runs
extern_run(t) ==
    /\ th[t].pc = "extern"
    /\ mem' = extern_kernel(mem, th[t].output, th[t].input, th[t].blocks)
    /\ th' = [th EXCEPT ![t].pc = "done", ![t].blocks = 0]
    /\ UNCHANGED <<hw, hasherVars, pat, overlap>>

\* Hasher::sha256_sse, `while (blocks)` taken: sha256_1_avx(output, input)
\* reads its input block
\* (variant: the previous digest is chained into the next block)
sse_call_chained(t) ==
    /\ th[t].pc = "loop"
    /\ th[t].blocks # 0
    /\ th' = [th EXCEPT ![t].pc = "store",
                        ![t].digest = IF th[t].digest = Untouched
                                      THEN sha256_1_avx_read(mem, th[t].input)
                                      ELSE Digest(th[t].digest,
                                                  Load(mem, th[t].input + BYTES_PER_CHUNK)),
                        ![t].log = Append(@, [rd |-> th[t].input - InBase(t),
                                              wr |-> th[t].output - OutBase(t)])]
    /\ UNCHANGED <<hw, hasherVars, pat, mem, overlap>>

\* (variant: every iteration probes the processor again and rebinds)
sse_call_reprobe(t) ==
    /\ th[t].pc = "loop"
    /\ th[t].blocks # 0
    /\ th' = [th EXCEPT ![t].pc = "store",
                        ![t].digest = sha256_1_avx_read(mem, th[t].input),
                        ![t].log = Append(@, [rd |-> th[t].input - InBase(t),
                                              wr |-> th[t].output - OutBase(t)])]
    /\ \E ub \in SUBSET EBXBits, uc \in SUBSET ECXBits :
          /\ hash_64b_blocks' = best_sha256_implementation(implemented(ub, uc))
          /\ detected' = implemented(ub, uc)
    /\ probes' = probes + 1
    /\ UNCHANGED <<hw, constructed, token, pat, mem, overlap>>

sse_call(t) ==
    /\ th[t].pc = "loop"
    /\ th[t].blocks # 0
    /\ th' = [th EXCEPT ![t].pc = "store",
                        ![t].digest = sha256_1_avx_read(mem, th[t].input),
                        ![t].log = Append(@, [rd |-> th[t].input - InBase(t),
                                              wr |-> th[t].output - OutBase(t)])]
    /\ UNCHANGED <<hw, hasherVars, pat, mem, overlap>>

\* sha256_1_avx writes the digest; then the pointers advance and blocks--
\* (variant: input advances by one chunk, not by one 64-byte block)
sse_advance_one_chunk(t) ==
    /\ th[t].pc = "store"
    /\ mem' = Store(mem, th[t].output, th[t].digest)
    /\ th' = [th EXCEPT ![t].pc = "loop",
                        ![t].input = @ + BYTES_PER_CHUNK,
                        ![t].output = @ + BYTES_PER_CHUNK,
                        ![t].blocks = @ - 1]
    /\ UNCHANGED <<hw, hasherVars, pat, overlap>>

\* (variant: the digest sits in one scratch slot all callers share, so a
\* caller stores what another caller in the kernel put there)
sse_advance_shared_scratch(t) ==
    /\ th[t].pc = "store"
    /\ mem' = Store(mem, th[t].output,
                    IF \E u \in Threads \ {t} : th[u].pc = "store"
                    THEN th[CHOOSE u \in Threads \ {t} : th[u].pc = "store"].digest
                    ELSE th[t].digest)
    /\ th' = [th EXCEPT ![t].pc = "loop",
                        ![t].input = @ + 2 * BYTES_PER_CHUNK,
                        ![t].output = @ + BYTES_PER_CHUNK,
                        ![t].blocks = @ - 1]
    /\ UNCHANGED <<hw, hasherVars, pat, overlap>>

sse_advance(t) ==
    /\ th[t].pc = "store"
    /\ mem' = Store(mem, th[t].output, th[t].digest)
    /\ th' = [th EXCEPT ![t].pc = "loop",
                        ![t].input = @ + 2 * BYTES_PER_CHUNK,
                        ![t].output = @ + BYTES_PER_CHUNK,
                        ![t].blocks = @ - 1]
    /\ UNCHANGED <<hw, hasherVars, pat, overlap>>

\* `while (blocks)` not taken: the call returns
sse_return(t) ==
    /\ th[t].pc = "loop"
    /\ th[t].blocks = 0
    /\ th' = [th EXCEPT ![t].pc = "done"]
    /\ UNCHANGED <<hw, hasherVars, pat, mem, overlap>>

\* ------------------------------------------------------------ the machine
\* a processor that does not answer a leaf has none of that leaf's features
Processors ==
    {h \in [maxLeaf : LeafLevels, ebx7 : SUBSET EBXBits, ecx1 : SUBSET ECXBits] :
        /\ h.maxLeaf < CPUID_LEAF => h.ebx7 = {}
        /\ h.maxLeaf < 1 => h.ecx1 = {}}

Init ==
    /\ hw \in Processors
    /\ constructed = FALSE
    /\ token = NONE
    /\ hash_64b_blocks = "unbound"
    /\ probes = 0
    /\ detected = NONE
    /\ pat \in [Threads -> Patterns]
    /\ mem = InitMem(pat)
    /\ th = [t \in Threads |-> IdleFrame]
    /\ overlap = FALSE

Next ==
    \/ \E impl \in IMPL : Hasher(impl)
    \/ \E t \in Threads, n \in 0 .. MaxBlocks : hash_pairs(t, n)
    \/ \E t \in Threads : extern_run(t)
    \/ \E t \in Threads : sse_call(t)
    \/ \E t \in Threads : sse_advance(t)
    \/ \E t \in Threads : sse_return(t)

Spec == Init /\ [][Next]_vars

\* ================================================================ claims
\* the constructor took the default label: probe, then selection
Auto == constructed /\ probes > 0

ExactTokens == {SHA, AVX2, AVX, SSE}

\* the capability each catalogued backend requires
RequiredFlag(k) ==
    CASE k = "sha256_shani" -> SHA
      [] k = "sha256_8_avx2" -> AVX2
      [] k = "sha256_4_avx" -> AVX
      [] OTHER -> NONE

\* the backend a single-flag token names
NamedBackend(tok) ==
    CASE tok = SHA -> "sha256_shani"
      [] tok = AVX2 -> "sha256_8_avx2"
      [] tok = AVX -> "sha256_4_avx"
      [] OTHER -> "sha256_sse"

\* the flags whose feature bit the processor has
HwFlags ==
    (IF bit_SHA \in hw.ebx7 THEN SHA ELSE NONE) \cup
    (IF bit_AVX2 \in hw.ebx7 THEN AVX2 ELSE NONE) \cup
    (IF bit_AVX \in hw.ecx1 THEN AVX ELSE NONE) \cup
    (IF bit_SSE3 \in hw.ecx1 THEN SSE ELSE NONE)

\* C1: for every capability set the probe handed to it, the selection returns
\* exactly one backend, and it is the fallback sha256_sse or a backend whose
\* required flag is in that set.
C1_SelectionIsUsable ==
    Auto => /\ hash_64b_blocks \in Backends
            /\ \/ hash_64b_blocks = "sha256_sse"
               \/ /\ RequiredFlag(hash_64b_blocks) # NONE
                  /\ RequiredFlag(hash_64b_blocks) \subseteq detected

C1_Witness ==
    Auto /\ detected = AVX \cup SSE /\ hash_64b_blocks = "sha256_4_avx"

\* C2: the selection returns the highest-priority match, in the order
\* SHA > AVX2 > AVX > fallback.
C2_PriorityOrder ==
    Auto => /\ ("SHA" \in detected) => hash_64b_blocks = "sha256_shani"
            /\ ("SHA" \notin detected /\ "AVX2" \in detected)
                  => hash_64b_blocks = "sha256_8_avx2"
            /\ ("SHA" \notin detected /\ "AVX2" \notin detected /\ "AVX" \in detected)
                  => hash_64b_blocks = "sha256_4_avx"
            /\ (hash_64b_blocks = "sha256_sse")
                  <=> (detected \cap {"SHA", "AVX2", "AVX"} = {})

C2_Witness ==
    /\ Auto
    /\ {"AVX2", "AVX", "SSE"} \subseteq detected
    /\ "SHA" \notin detected
    /\ hash_64b_blocks = "sha256_8_avx2"

\* C3 (as stated): whatever token the constructor is given, the baseline
\* (no-extension) token NONE included, it binds the backend the token names
\* without running the probe.
C3_AnyTokenBypassesProbe ==
    constructed => /\ probes = 0
                   /\ (token \in ExactTokens \cup {NONE})
                         => hash_64b_blocks = NamedBackend(token)

\* C3 (amended): a token that is exactly one of SHA, AVX2, AVX, SSE binds the
\* backend it names without running the probe, whatever the processor has.
C3_ExactTokenBypassesProbe ==
    (constructed /\ token \in ExactTokens)
        => /\ probes = 0
           /\ hash_64b_blocks = NamedBackend(token)

C3_Witness ==
    /\ constructed
    /\ token = AVX2
    /\ hash_64b_blocks = "sha256_8_avx2"
    /\ probes = 0
    /\ hw.maxLeaf = CPUID_LEAF
    /\ HwFlags = SHA \cup SSE

\* C4: when a CPUID query is unsupported, the probe sets no flag from the
\* registers that query left unwritten; when both are unsupported it returns
\* NONE and the automatic selection binds sha256_sse.
C4_FailedQueryDegradesToNone ==
    Auto => /\ (hw.maxLeaf < CPUID_LEAF) => (detected \cap (SHA \cup AVX2) = {})
            /\ (hw.maxLeaf < 1) => (detected = NONE /\ hash_64b_blocks = "sha256_sse")

\* C9: the probe returns exactly the flags whose feature bit the processor
\* has, each flag independently of the other three.
C9_ProbeReturnsHardwareFlags ==
    Auto => detected = HwFlags

\* C10: the constructor matches the token exactly: a single-flag token binds
\* the backend it names; every other token (NONE or several flags) binds the
\* automatic selection on the probed capabilities.
C10_ExactMatchElseAuto ==
    constructed =>
        /\ (token = SHA) => hash_64b_blocks = "sha256_shani"
        /\ (token = AVX2) => hash_64b_blocks = "sha256_8_avx2"
        /\ (token = AVX) => hash_64b_blocks = "sha256_4_avx"
        /\ (token = SSE) => hash_64b_blocks = "sha256_sse"
        /\ (token \notin ExactTokens)
              => /\ probes = 1
                 /\ hash_64b_blocks = best_sha256_implementation(detected)

C10_Witness ==
    /\ constructed
    /\ token = SHA \cup AVX2
    /\ detected = SSE
    /\ hash_64b_blocks = "sha256_sse"

\* ------------------------------------------------------------ hash calls
\* the chunks of the output region a call of t was told it may write
DeclaredOut(t) ==
    IF th[t].pc = "idle" THEN {}
    ELSE {k \in Region(t) : /\ OutBase(t) <= k * BYTES_PER_CHUNK
                            /\ k * BYTES_PER_CHUNK < OutBase(t) + th[t].n * 32}

\* C5: a call of sha256_sse makes block_count kernel invocations, invocation
\* i on input bytes [i*64, i*64+64) and output bytes [i*32, i*32+32), in
\* increasing order, each iteration lowering the remaining count by one; it
\* reads nothing outside input [0, n*64) and writes nothing outside output
\* [0, n*32).
C5_SseBlockAccesses ==
    /\ \A t \in Threads :
          th[t].kern = "sha256_sse" =>
             /\ \A i \in 1 .. Len(th[t].log) :
                   /\ th[t].log[i] = [rd |-> (i - 1) * 64, wr |-> (i - 1) * 32]
                   /\ th[t].log[i].rd + 64 <= th[t].n * 64
                   /\ th[t].log[i].wr + 32 <= th[t].n * 32
             /\ th[t].blocks \in 0 .. th[t].n
             /\ Len(th[t].log) =
                   th[t].n - th[t].blocks + (IF th[t].pc = "store" THEN 1 ELSE 0)
             /\ (th[t].pc = "done") => (th[t].blocks = 0 /\ Len(th[t].log) = th[t].n)
             /\ (th[t].pc # "done") => ENABLED (sse_call(t) \/ sse_advance(t) \/ sse_return(t))
    /\ LET before == InitMem(pat)
           declared == UNION {DeclaredOut(t) : t \in Threads}
       IN  \A k \in Chunks \ declared : mem[k] = before[k]

C5_Witness ==
    \E t \in Threads :
        /\ th[t].kern = "sha256_sse"
        /\ th[t].pc = "done"
        /\ th[t].n = MaxBlocks
        /\ Len(th[t].log) = MaxBlocks

\* the 32 output bytes of a separate one-block call on the pair (l, r)
SingleCall(l, r) ==
    LET scratch == [k \in 0 .. 2 |-> IF k = 0 THEN l ELSE IF k = 1 THEN r ELSE Untouched]
    IN  Load(sha256_sse(scratch, 2 * BYTES_PER_CHUNK, 0, 1), 2 * BYTES_PER_CHUNK)

\* C6: after one call on N pairs, block i of the output is what a separate
\* one-block call on pair i alone produces.
C6_BatchIndependence ==
    LET before == InitMem(pat) IN
    \A t \in Threads :
        (th[t].kern = "sha256_sse" /\ th[t].pc = "done") =>
            \A i \in 0 .. th[t].n - 1 :
                Load(mem, OutBase(t) + i * 32)
                    = SingleCall(Load(before, InBase(t) + i * 64),
                                 Load(before, InBase(t) + i * 64 + 32))

C6_Witness ==
    \E t \in Threads :
        /\ th[t].kern = "sha256_sse"
        /\ th[t].pc = "done"
        /\ th[t].n = MaxBlocks
        /\ pat[t] = "distinct"
        /\ \A i \in 0 .. MaxBlocks - 1 : Load(mem, OutBase(t) + i * 32) # Untouched

\* C7: once construction has finished, no step changes the bound backend,
\* unbinds the Hasher or runs the probe again.
C7_BoundIsFixed ==
    [][constructed => /\ constructed'
                      /\ hash_64b_blocks \in Backends
                      /\ hash_64b_blocks' = hash_64b_blocks
                      /\ probes' = probes]_vars

C7_Witness ==
    /\ constructed
    /\ \A t \in Threads : th[t].pc = "done" /\ th[t].n > 0
    /\ \A t \in Threads : th[t].kern = hash_64b_blocks

\* C8: with each caller on buffers of its own, in every interleaving the
\* region of a caller holds what that call alone, run on the initial memory
\* for as many blocks as it has completed, would have left there; a finished
\* call holds its complete solo result; the bound backend is the one called.
C8_ConcurrentEqualsSolo ==
    \A t \in Threads :
        (th[t].kern = "sha256_sse") =>
            /\ LET solo == sha256_sse(InitMem(pat), OutBase(t), InBase(t),
                                      th[t].n - th[t].blocks)
               IN  \A k \in Region(t) : mem[k] = solo[k]
            /\ hash_64b_blocks = th[t].kern

C8_Witness ==
    /\ overlap
    /\ \A t \in Threads :
          /\ th[t].kern = "sha256_sse"
          /\ th[t].pc = "done"
          /\ th[t].n = MaxBlocks

=============================================================================
